---------------------------- MODULE Spec2Model ----------------------------
(***************************************************************************)
(* A model of the CHIP-8 interpreter core of src/src/lib.rs: the struct    *)
(* Emu and its operations new, reset, tick (fetch + execute), tick_timers, *)
(* keypress and load, driven by an external caller.                        *)
(*                                                                         *)
(* Representation.  The struct Emu is a record with the fields of the      *)
(* source.  Two of its arrays are stored compactly; both encodings are     *)
(* one-to-one with the arrays of the source:                               *)
(*   ram    : [u8; 4096] is the function from the addresses that hold a    *)
(*            nonzero byte to that byte (RamGet reads 0 elsewhere, RamSet  *)
(*            keeps the domain exactly the nonzero bytes);                 *)
(*   screen : [bool; 2048] is the set of the indices that hold true.       *)
(* A Rust panic (index out of bounds, arithmetic overflow in a build with  *)
(* overflow checks, unimplemented!) ends the run: the variable panic       *)
(* records it and the struct keeps what had been written before it.        *)
(***************************************************************************)
EXTENDS Integers, Sequences, FiniteSets, TLC

VARIABLES
    emu,      \* the struct Emu
    panic,    \* NoPanic, or the panic that ended the run
    prev,     \* history: the struct Emu before the last call
    last,     \* history: the last call of the driver, the opcode it fetched
              \* and what the call exposed to the driver
    prev2,    \* history: the struct Emu before the call before the last
    last2,    \* history: the call before the last
    shadow,   \* history: the calls not yet returned from, oldest first
    calls     \* the number of calls the driver has made: of tick, of the others

vars == <<emu, panic, prev, last, prev2, last2, shadow, calls>>

----------------------------------------------------------------------------
(* Constants of the source *)

SCREEN_WIDTH == 64
SCREEN_HEIGHT == 32
RAM_SIZE == 4096
NUM_V_REGS == 16
STACK_SIZE == 16
NUM_KEYS == 16
START_ADDR == 512
FONTSET_SIZE == 80

FONTSET ==
    << 240, 144, 144, 144, 240,
        32,  96,  32,  32, 112,
       240,  16, 240, 128, 240,
       240,  16, 240,  16, 240,
       144, 144, 240,  16,  16,
       240, 128, 240,  16, 240,
       240, 128, 240, 144, 240,
       240,  16,  32,  64,  64,
       240, 144, 240, 144, 240,
       240, 144, 240,  16, 240,
       240, 144, 240, 144, 144,
       224, 144, 224, 144, 224,
       240, 128, 128, 128, 240,
       224, 144, 144, 144, 224,
       240, 128, 240, 128, 240,
       240, 128, 240, 128, 128 >>

U8 == 256
U16 == 65536

----------------------------------------------------------------------------
(* Bytes and bit operations *)

RECURSIVE And8(_, _)
And8(a, b) ==
    IF a = 0 \/ b = 0 THEN 0
    ELSE (a % 2) * (b % 2) + 2 * And8(a \div 2, b \div 2)

Or8(a, b) == a + b - And8(a, b)

Xor8(a, b) == a + b - 2 * And8(a, b)

RECURSIVE Pow(_, _)
Pow(b, n) == IF n = 0 THEN 1 ELSE b * Pow(b, n - 1)

----------------------------------------------------------------------------
(* The arrays ram and screen *)

RamGet(ram, addr) == IF addr \in DOMAIN ram THEN ram[addr] ELSE 0

RamSet(ram, addr, byte) ==
    IF byte = 0
    THEN [a \in DOMAIN ram \ {addr} |-> ram[a]]
    ELSE [a \in DOMAIN ram \cup {addr} |-> IF a = addr THEN byte ELSE ram[a]]

ScreenGet(screen, index) == index \in screen

\* variant: the cell is set, not toggled
ScreenOrTrue(screen, index) == screen \cup {index}

ScreenXorTrue(screen, index) ==
    IF index \in screen THEN screen \ {index} ELSE screen \cup {index}

----------------------------------------------------------------------------
(* Panics *)

NoPanic == [msg |-> "none", len |-> 0, index |-> 0]

IndexOutOfBounds(len, index) ==
    [msg |-> "index out of bounds", len |-> len, index |-> index]

SubtractWithOverflow ==
    [msg |-> "attempt to subtract with overflow", len |-> 0, index |-> 0]

RangeEndOutOfRange(len, index) ==
    [msg |-> "range end index out of range for slice", len |-> len, index |-> index]

\* variant: a word of no arm is passed over
NotImplementedPassedOver(op) == [msg |-> "none", len |-> 0, index |-> 0]

NotImplemented(op) ==
    [msg |-> "not implemented: Unimplemented opcode", len |-> 0, index |-> op]

Ok(e) == [emu |-> e, panic |-> NoPanic]

Panicked(e, p) == [emu |-> e, panic |-> p]

----------------------------------------------------------------------------
(* new, reset, tick_timers, keypress, load *)

New ==
    [ pc     |-> START_ADDR,
      ram    |-> [a \in 0 .. FONTSET_SIZE - 1 |-> FONTSET[a + 1]],
      screen |-> {},
      v_reg  |-> [r \in 0 .. NUM_V_REGS - 1 |-> 0],
      i_reg  |-> 0,
      stack  |-> [s \in 0 .. STACK_SIZE - 1 |-> 0],
      sp     |-> 0,
      dt     |-> 0,
      st     |-> 0,
      keys   |-> [k \in 0 .. NUM_KEYS - 1 |-> FALSE] ]

\* variant: the ram is not cleared
ResetKeepsRam(e) == [New EXCEPT !.ram = e.ram]

Reset(e) ==
    [ pc     |-> START_ADDR,
      ram    |-> [a \in 0 .. FONTSET_SIZE - 1 |-> FONTSET[a + 1]],
      screen |-> {},
      v_reg  |-> [r \in 0 .. NUM_V_REGS - 1 |-> 0],
      i_reg  |-> 0,
      stack  |-> [s \in 0 .. STACK_SIZE - 1 |-> 0],
      sp     |-> 0,
      dt     |-> 0,
      st     |-> 0,
      keys   |-> [k \in 0 .. NUM_KEYS - 1 |-> FALSE] ]

\* variant: the frame also releases every key
TickTimersReleasesKeys(e) ==
    [e EXCEPT !.dt = IF @ > 0 THEN @ - 1 ELSE @,
              !.st = IF @ > 0 THEN @ - 1 ELSE @,
              !.keys = [k \in 0 .. NUM_KEYS - 1 |-> FALSE]]

TickTimers(e) ==
    [e EXCEPT !.dt = IF @ > 0 THEN @ - 1 ELSE @,
              !.st = IF @ > 0 THEN @ - 1 ELSE @]

\* what a call of tick_timers exposes to its caller: the function returns (),
\* and its block for st == 1 holds a comment ("beep") and no statement
TickTimersBeep(e) ==
    IF e.st > 0
    THEN IF e.st = 1 THEN FALSE ELSE FALSE
    ELSE FALSE

Keypress(e, index, pressed) ==
    IF index >= NUM_KEYS
    THEN Panicked(e, IndexOutOfBounds(NUM_KEYS, index))
    ELSE Ok([e EXCEPT !.keys[index] = pressed])

Load(e, data) ==
    LET start == START_ADDR
        end   == start + Len(data)
        kept  == {a \in DOMAIN e.ram : a < start \/ a >= end}
        set   == {a \in start .. end - 1 : data[a - start + 1] # 0}
    IN  IF end > RAM_SIZE
        THEN Panicked(e, RangeEndOutOfRange(RAM_SIZE, end))
        ELSE Ok([e EXCEPT !.ram =
                    [a \in kept \cup set |->
                        IF a \in set THEN data[a - start + 1] ELSE e.ram[a]]])

----------------------------------------------------------------------------
(* push, pop, fetch *)

Push(e, value) ==
    IF e.sp >= STACK_SIZE
    THEN Panicked(e, IndexOutOfBounds(STACK_SIZE, e.sp))
    ELSE Ok([e EXCEPT !.stack[e.sp] = value, !.sp = e.sp + 1])

\* self.sp -= 1 on sp = 0 panics in a build with overflow checks (debug) and
\* wraps to 0xFFFF in a build without them (release), where the read of
\* stack[0xFFFF] then panics.
Pop(e, overflow_checks) ==
    IF e.sp = 0 /\ overflow_checks
    THEN [emu |-> e, value |-> 0, panic |-> SubtractWithOverflow]
    ELSE LET sp == (e.sp - 1) % U16
             e1 == [e EXCEPT !.sp = sp]
         IN  IF sp >= STACK_SIZE
             THEN [emu |-> e1, value |-> 0,
                   panic |-> IndexOutOfBounds(STACK_SIZE, sp)]
             ELSE [emu |-> e1, value |-> e.stack[sp], panic |-> NoPanic]

Fetch(e) ==
    IF e.pc >= RAM_SIZE
    THEN [emu |-> e, op |-> 0, panic |-> IndexOutOfBounds(RAM_SIZE, e.pc)]
    ELSE IF (e.pc + 1) % U16 >= RAM_SIZE
    THEN [emu |-> e, op |-> 0,
          panic |-> IndexOutOfBounds(RAM_SIZE, (e.pc + 1) % U16)]
    ELSE [emu |-> [e EXCEPT !.pc = e.pc + 2],
          op |-> RamGet(e.ram, e.pc) * 256 + RamGet(e.ram, e.pc + 1),
          panic |-> NoPanic]

----------------------------------------------------------------------------
(* execute: one operator per arm of the match *)

\* (0, 0, 0, 0)
ExecNop(e) == Ok(e)

\* (0, 0, 0xE, 0)
ExecCls(e) == Ok([e EXCEPT !.screen = {}])

\* (0, 0, 0xE, 0xE)
ExecRet(e, overflow_checks) ==
    LET p == Pop(e, overflow_checks)
    IN  IF p.panic # NoPanic
        THEN Panicked(p.emu, p.panic)
        ELSE Ok([p.emu EXCEPT !.pc = p.value])

\* (1, _, _, _)
ExecJmp(e, nnn) == Ok([e EXCEPT !.pc = nnn])

\* variant: the address pushed is that of the call itself
ExecCallPushesOwnAddress(e, nnn) ==
    LET p == Push(e, e.pc - 2)
    IN  IF p.panic # NoPanic
        THEN p
        ELSE Ok([p.emu EXCEPT !.pc = nnn])

\* (2, _, _, _)
ExecCall(e, nnn) ==
    LET p == Push(e, e.pc)
    IN  IF p.panic # NoPanic
        THEN p
        ELSE Ok([p.emu EXCEPT !.pc = nnn])

\* the skips; pc is at most RAM_SIZE after a fetch, so pc + 2 fits 16 bits
SkipIf(e, cond) == Ok(IF cond THEN [e EXCEPT !.pc = e.pc + 2] ELSE e)

\* (3, _, _, _)
ExecSkipEqNN(e, x, nn) == SkipIf(e, e.v_reg[x] = nn)

\* (4, _, _, _)
ExecSkipNeNN(e, x, nn) == SkipIf(e, e.v_reg[x] # nn)

\* (5, _, _, 0)
ExecSkipEqXY(e, x, y) == SkipIf(e, e.v_reg[x] = e.v_reg[y])

\* (6, _, _, _)
ExecSetNN(e, x, nn) == Ok([e EXCEPT !.v_reg[x] = nn])

\* variant: the addition leaves its carry in VF
ExecAddNNSetsCarry(e, x, nn) ==
    LET sum == e.v_reg[x] + nn
        e1  == [e EXCEPT !.v_reg[x] = sum % U8]
    IN  Ok([e1 EXCEPT !.v_reg[15] = IF sum >= U8 THEN 1 ELSE 0])

\* (7, _, _, _): wrapping_add
ExecAddNN(e, x, nn) == Ok([e EXCEPT !.v_reg[x] = (e.v_reg[x] + nn) % U8])

\* (8, _, _, 0)
ExecSetXY(e, x, y) == Ok([e EXCEPT !.v_reg[x] = e.v_reg[y]])

\* (8, _, _, 1)
ExecOrXY(e, x, y) == Ok([e EXCEPT !.v_reg[x] = Or8(e.v_reg[x], e.v_reg[y])])

\* (8, _, _, 2)
ExecAndXY(e, x, y) == Ok([e EXCEPT !.v_reg[x] = And8(e.v_reg[x], e.v_reg[y])])

\* (8, _, _, 3)
ExecXorXY(e, x, y) == Ok([e EXCEPT !.v_reg[x] = Xor8(e.v_reg[x], e.v_reg[y])])

\* variant: a sum of exactly 256 does not carry
ExecAddXYCarryAbove(e, x, y) ==
    LET sum    == e.v_reg[x] + e.v_reg[y]
        result == sum % U8
        carry  == sum > U8
        e1     == [e EXCEPT !.v_reg[x] = result]
    IN  Ok([e1 EXCEPT !.v_reg[15] = IF carry THEN 1 ELSE 0])

\* (8, _, _, 4): overflowing_add, then v_reg[x], then v_reg[0xF]
ExecAddXY(e, x, y) ==
    LET sum    == e.v_reg[x] + e.v_reg[y]
        result == sum % U8
        carry  == sum >= U8
        e1     == [e EXCEPT !.v_reg[x] = result]
    IN  Ok([e1 EXCEPT !.v_reg[15] = IF carry THEN 1 ELSE 0])

\* variant: equal operands borrow
ExecSubXYBorrowOnEqual(e, x, y) ==
    LET diff   == e.v_reg[x] - e.v_reg[y]
        result == diff % U8
        borrow == diff <= 0
        e1     == [e EXCEPT !.v_reg[x] = result]
    IN  Ok([e1 EXCEPT !.v_reg[15] = IF borrow THEN 0 ELSE 1])

\* (8, _, _, 5): overflowing_sub, then v_reg[x], then v_reg[0xF]
ExecSubXY(e, x, y) ==
    LET diff   == e.v_reg[x] - e.v_reg[y]
        result == diff % U8
        borrow == diff < 0
        e1     == [e EXCEPT !.v_reg[x] = result]
    IN  Ok([e1 EXCEPT !.v_reg[15] = IF borrow THEN 0 ELSE 1])

\* (8, _, _, 6): dropped = v_reg[x] * 1; v_reg[x] >>= 1; v_reg[0xF] = dropped
ExecShr(e, x) ==
    LET dropped == e.v_reg[x] * 1
        e1      == [e EXCEPT !.v_reg[x] = e.v_reg[x] \div 2]
    IN  Ok([e1 EXCEPT !.v_reg[15] = dropped])

\* (8, _, _, 7): overflowing_sub, then v_reg[x], then v_reg[0xF]
ExecSubYX(e, x, y) ==
    LET diff   == e.v_reg[y] - e.v_reg[x]
        result == diff % U8
        borrow == diff < 0
        e1     == [e EXCEPT !.v_reg[x] = result]
    IN  Ok([e1 EXCEPT !.v_reg[15] = IF borrow THEN 0 ELSE 1])

\* variant: the bit kept is the least significant one
ExecShlLowBit(e, x) ==
    LET dropped == And8(e.v_reg[x], 1)
        e1      == [e EXCEPT !.v_reg[x] = (e.v_reg[x] * 2) % U8]
    IN  Ok([e1 EXCEPT !.v_reg[15] = dropped])

\* (8, _, _, 0xE): dropped = (v_reg[x] >> 7) & 1; v_reg[x] <<= 1; v_reg[0xF] = dropped
ExecShl(e, x) ==
    LET dropped == And8(e.v_reg[x] \div 128, 1)
        e1      == [e EXCEPT !.v_reg[x] = (e.v_reg[x] * 2) % U8]
    IN  Ok([e1 EXCEPT !.v_reg[15] = dropped])

\* (9, _, _, 0)
ExecSkipNeXY(e, x, y) == SkipIf(e, e.v_reg[x] # e.v_reg[y])

\* (0xA, _, _, _)
ExecSetI(e, nnn) == Ok([e EXCEPT !.i_reg = nnn])

\* variant: V0 counts instructions of two bytes
ExecJmpV0Scaled(e, nnn) == Ok([e EXCEPT !.pc = 2 * e.v_reg[0] + nnn])

\* (0xB, _, _, _): v_reg[0] + nnn is at most 0xFF + 0xFFF
ExecJmpV0(e, nnn) == Ok([e EXCEPT !.pc = e.v_reg[0] + nnn])

\* (0xC, _, _, _): rnd is the byte rand::random() returned
ExecRand(e, x, nn, rnd) == Ok([e EXCEPT !.v_reg[x] = And8(rnd, nn)])

\* (0xD, _, _, _), the loop over delta_x: acc is [screen, flipped].  The 8
\* columns (x + delta_x) % SCREEN_WIDTH of a row are distinct, so the loop
\* reads and toggles each cell at most once: a cell of the row is read as it
\* was before the row, and is left as its own toggle leaves it.
DrawRow(acc, flips, x, y, delta_y) ==
    LET py       == (y + delta_y) % SCREEN_HEIGHT
        Index(delta_x) == py * SCREEN_WIDTH + ((x + delta_x) % SCREEN_WIDTH)
        toggled  == { Index(delta_x) :
                        delta_x \in { d \in 0 .. 7 :
                                        And8(flips, 128 \div Pow(2, d)) # 0 } }
    IN  [screen  |-> { index \in acc.screen \cup toggled :
                         IF index \in toggled
                         THEN ScreenGet(ScreenXorTrue(acc.screen, index), index)
                         ELSE ScreenGet(acc.screen, index) },
         flipped |-> acc.flipped
                     \/ \E index \in toggled : ScreenGet(acc.screen, index)]

\* (0xD, _, _, _), the loop over delta_y; the read of ram may panic
RECURSIVE DrawRows(_, _, _, _, _, _)
DrawRows(e, acc, x, y, n, delta_y) ==
    IF delta_y = n
    THEN [screen |-> acc.screen, flipped |-> acc.flipped, panic |-> NoPanic]
    ELSE LET addr == e.i_reg + delta_y
         IN  IF addr >= RAM_SIZE
             THEN [screen |-> acc.screen, flipped |-> acc.flipped,
                   panic |-> IndexOutOfBounds(RAM_SIZE, addr)]
             ELSE DrawRows(e, DrawRow(acc, RamGet(e.ram, addr), x, y, delta_y),
                           x, y, n, delta_y + 1)

\* (0xD, _, _, _): x, y and n are digit2, digit3 and digit4 of the opcode
ExecDraw(e, x, y, n) ==
    LET r  == DrawRows(e, [screen |-> e.screen, flipped |-> FALSE], x, y, n, 0)
        e1 == [e EXCEPT !.screen = r.screen]
    IN  IF r.panic # NoPanic
        THEN Panicked(e1, r.panic)
        ELSE Ok([e1 EXCEPT !.v_reg[15] = IF r.flipped THEN 1 ELSE 0])

\* (0xE, _, 0x9, 0xE)
ExecSkipKey(e, x) ==
    LET key_index == e.v_reg[x]
    IN  IF key_index >= NUM_KEYS
        THEN Panicked(e, IndexOutOfBounds(NUM_KEYS, key_index))
        ELSE SkipIf(e, e.keys[key_index])

\* (0xE, _, 0xA, 0x1)
ExecSkipNoKey(e, x) ==
    LET key_index == e.v_reg[x]
    IN  IF key_index >= NUM_KEYS
        THEN Panicked(e, IndexOutOfBounds(NUM_KEYS, key_index))
        ELSE SkipIf(e, ~e.keys[key_index])

\* variant: the read uses the timer up
ExecGetDtClears(e, x) == Ok([e EXCEPT !.v_reg[x] = e.dt, !.dt = 0])

\* (0xF, _, 0x0, 0x7)
ExecGetDt(e, x) == Ok([e EXCEPT !.v_reg[x] = e.dt])

\* variant: pc is not taken back when no key is down
ExecWaitKeyNoRewind(e, x) ==
    LET down == {k \in 0 .. NUM_KEYS - 1 : e.keys[k]}
    IN  IF down # {}
        THEN Ok([e EXCEPT !.v_reg[x] = CHOOSE k \in down : \A j \in down : k <= j])
        ELSE Ok(e)

\* (0xF, _, 0x0, 0xA): the first pressed key in 0..NUM_KEYS, else pc -= 2
\* (pc is at least 2 after a fetch)
ExecWaitKey(e, x) ==
    LET down == {k \in 0 .. NUM_KEYS - 1 : e.keys[k]}
    IN  IF down # {}
        THEN Ok([e EXCEPT !.v_reg[x] = CHOOSE k \in down : \A j \in down : k <= j])
        ELSE Ok([e EXCEPT !.pc = e.pc - 2])

\* (0xF, _, 0x1, 0x5)
ExecSetDt(e, x) == Ok([e EXCEPT !.dt = e.v_reg[x]])

\* (0xF, _, 0x1, 0x8)
ExecSetSt(e, x) == Ok([e EXCEPT !.st = e.v_reg[x]])

\* (0xF, _, 0x1, 0xE)
ExecAddI(e, x) == Ok([e EXCEPT !.i_reg = (e.i_reg + e.v_reg[x]) % U16])

\* (0xF, _, 0x2, 0x9)
ExecFont(e, x) == Ok([e EXCEPT !.i_reg = 5 * e.v_reg[x]])

\* (0xF, _, 0x3, 0x3), the loop for i in 0..3; a write past ram panics first
\* for any i_reg that i_reg + i would overflow
RECURSIVE StoreBcd(_, _, _)
StoreBcd(e, num, i) ==
    IF i = 3 THEN Ok(e)
    ELSE LET digit == (num \div Pow(10, i)) % 10
             addr  == e.i_reg + i
         IN  IF addr >= RAM_SIZE
             THEN Panicked(e, IndexOutOfBounds(RAM_SIZE, addr))
             ELSE StoreBcd([e EXCEPT !.ram = RamSet(e.ram, addr, digit)], num, i + 1)

ExecBcd(e, x) == StoreBcd(e, e.v_reg[x], 0)

\* (0xF, _, 0x5, 0x5), the loop for i in 0..=x
RECURSIVE StoreRegs(_, _, _)
StoreRegs(e, x, i) ==
    IF i > x THEN Ok(e)
    ELSE LET addr == e.i_reg + i
         IN  IF addr >= RAM_SIZE
             THEN Panicked(e, IndexOutOfBounds(RAM_SIZE, addr))
             ELSE StoreRegs([e EXCEPT !.ram = RamSet(e.ram, addr, e.v_reg[i])], x, i + 1)

ExecStoreRegs(e, x) == StoreRegs(e, x, 0)

\* (0xF, _, 0x6, 0x5), the loop for i in 0..=x
RECURSIVE LoadRegs(_, _, _)
LoadRegs(e, x, i) ==
    IF i > x THEN Ok(e)
    ELSE LET addr == e.i_reg + i
         IN  IF addr >= RAM_SIZE
             THEN Panicked(e, IndexOutOfBounds(RAM_SIZE, addr))
             ELSE LoadRegs([e EXCEPT !.v_reg[i] = RamGet(e.ram, addr)], x, i + 1)

ExecLoadRegs(e, x) == LoadRegs(e, x, 0)

Digit1(op) == op \div 4096
Digit2(op) == (op \div 256) % 16
Digit3(op) == (op \div 16) % 16
Digit4(op) == op % 16

Execute(e, op, rnd, overflow_checks) ==
    LET digit1 == Digit1(op)
        digit2 == Digit2(op)
        digit3 == Digit3(op)
        digit4 == Digit4(op)
        nnn    == op % 4096
        nn     == op % 256
        x      == digit2
        y      == digit3
    IN  CASE op = 0                                  -> ExecNop(e)
          [] op = 224                                -> ExecCls(e)
          [] op = 238                                -> ExecRet(e, overflow_checks)
          [] digit1 = 1                              -> ExecJmp(e, nnn)
          [] digit1 = 2                              -> ExecCall(e, nnn)
          [] digit1 = 3                              -> ExecSkipEqNN(e, x, nn)
          [] digit1 = 4                              -> ExecSkipNeNN(e, x, nn)
          [] digit1 = 5 /\ digit4 = 0                -> ExecSkipEqXY(e, x, y)
          [] digit1 = 6                              -> ExecSetNN(e, x, nn)
          [] digit1 = 7                              -> ExecAddNN(e, x, nn)
          [] digit1 = 8 /\ digit4 = 0                -> ExecSetXY(e, x, y)
          [] digit1 = 8 /\ digit4 = 1                -> ExecOrXY(e, x, y)
          [] digit1 = 8 /\ digit4 = 2                -> ExecAndXY(e, x, y)
          [] digit1 = 8 /\ digit4 = 3                -> ExecXorXY(e, x, y)
          [] digit1 = 8 /\ digit4 = 4                -> ExecAddXY(e, x, y)
          [] digit1 = 8 /\ digit4 = 5                -> ExecSubXY(e, x, y)
          [] digit1 = 8 /\ digit4 = 6                -> ExecShr(e, x)
          [] digit1 = 8 /\ digit4 = 7                -> ExecSubYX(e, x, y)
          [] digit1 = 8 /\ digit4 = 14               -> ExecShl(e, x)
          [] digit1 = 9 /\ digit4 = 0                -> ExecSkipNeXY(e, x, y)
          [] digit1 = 10                             -> ExecSetI(e, nnn)
          [] digit1 = 11                             -> ExecJmpV0(e, nnn)
          [] digit1 = 12                             -> ExecRand(e, x, nn, rnd)
          [] digit1 = 13                             -> ExecDraw(e, x, y, digit4)
          [] digit1 = 14 /\ digit3 = 9 /\ digit4 = 14  -> ExecSkipKey(e, x)
          [] digit1 = 14 /\ digit3 = 10 /\ digit4 = 1  -> ExecSkipNoKey(e, x)
          [] digit1 = 15 /\ digit3 = 0 /\ digit4 = 7   -> ExecGetDt(e, x)
          [] digit1 = 15 /\ digit3 = 0 /\ digit4 = 10  -> ExecWaitKey(e, x)
          [] digit1 = 15 /\ digit3 = 1 /\ digit4 = 5   -> ExecSetDt(e, x)
          [] digit1 = 15 /\ digit3 = 1 /\ digit4 = 8   -> ExecSetSt(e, x)
          [] digit1 = 15 /\ digit3 = 1 /\ digit4 = 14  -> ExecAddI(e, x)
          [] digit1 = 15 /\ digit3 = 2 /\ digit4 = 9   -> ExecFont(e, x)
          [] digit1 = 15 /\ digit3 = 3 /\ digit4 = 3   -> ExecBcd(e, x)
          [] digit1 = 15 /\ digit3 = 5 /\ digit4 = 5   -> ExecStoreRegs(e, x)
          [] digit1 = 15 /\ digit3 = 6 /\ digit4 = 5   -> ExecLoadRegs(e, x)
          [] OTHER                                   -> Panicked(e, NotImplemented(op))

\* tick: fetch, then execute unless the fetch panicked
TickEmu(e, rnd, overflow_checks) ==
    LET f == Fetch(e)
    IN  IF f.panic # NoPanic
        THEN [emu |-> f.emu, op |-> f.op, panic |-> f.panic]
        ELSE LET r == Execute(f.emu, f.op, rnd, overflow_checks)
             IN  [emu |-> r.emu, op |-> f.op, panic |-> r.panic]

----------------------------------------------------------------------------
(* The driver: what it loads, which keys it reports, how often it calls *)

\* a program of 16-bit words as the bytes load() is given, big endian
Bytes(words) ==
    [i \in 1 .. 2 * Len(words) |->
        IF i % 2 = 1 THEN words[(i + 1) \div 2] \div 256 ELSE words[i \div 2] % 256]

\* the opcode of the four digits
Op(digit1, digit2, digit3, digit4) ==
    digit1 * 4096 + digit2 * 256 + digit3 * 16 + digit4

\* FX0A into V5, then a jump to itself
KeyWaitProgram == << \hF50A, \h1202 >>

\* 200: CALL 206; 202: CALL 20A; 204: JMP 204; 206: CALL 20A; 208: RET; 20A: RET
CallProgram == << \h2206, \h220A, \h1204, \h220A, \h00EE, \h00EE >>

\* CALL 200 at 200: a call of itself, until the stack is full
RecurseProgram == << \h2200 >>

\* RET on an empty stack
ReturnProgram == << \h00EE >>

\* skips on keys: V1 = 3, EX9E, EXA1
KeySkipProgram == << \h6103, \hE19E, \hE1A1, \h120A, \h1208, \h120A >>

\* a skip on key 16, which is no key
KeyIndexProgram == << \h6110, \hE19E >>

\* timers: V2 = 2, delay = V2, sound = V2, V3 = delay, jump to itself
TimerProgram == << \h6202, \hF215, \hF218, \hF307, \h1208 >>

\* an opcode of no arm of the match
UnknownProgram == << \h0001 >>

\* a jump to the last byte of ram, where the fetch reads past it
FetchEndProgram == << \h1FFF >>

\* both timers set to 3, then instructions of every other kind:
\* 200: V2 = 3; dt = V2; st = V2; V2 += 1; V3 += V2; I = 300; store V0..V2;
\* 20E: load V0..V2; BCD of V2; I += V2; I = glyph of V0; draw; clear;
\* 21A: skip if V2 # 0; (skipped); CALL 222; 220: JMP 220;
\* 222: skip if V2 # V3 (they are equal); RET
TimerTourProgram ==
    << \h6203, \hF215, \hF218, \h7201, \h8324, \hA300, \hF255,
       \hF265, \hF233, \hF21E, \hF029, \hD015, \h00E0,
       \h4200, \h0000, \h2222, \h1220,
       \h9230, \h00EE >>

\* both timers set to 2, then back to the start address, where the driver
\* may load again
TimerLoopProgram == << \h6202, \hF215, \hF218, \h1200 >>

\* V0 = 0xFF, then a jump to V0 + 0xFFF, the largest target there is
JumpOffsetProgram == << \h60FF, \hBFFF >>

\* one byte more than the ram holds from START_ADDR on
OversizedData == [i \in 1 .. RAM_SIZE - START_ADDR + 1 |-> 0]

Programs ==
    { Bytes(KeyWaitProgram), Bytes(CallProgram), Bytes(RecurseProgram),
      Bytes(ReturnProgram), Bytes(KeySkipProgram), Bytes(KeyIndexProgram),
      Bytes(TimerProgram), Bytes(UnknownProgram), Bytes(FetchEndProgram),
      Bytes(TimerTourProgram), Bytes(TimerLoopProgram),
      Bytes(JumpOffsetProgram), OversizedData }

\* the key indices the driver reports; NUM_KEYS is no key
KeyInputs == {0, 3, 15, NUM_KEYS}

\* the driver makes at most MaxTicks calls of tick and at most MaxOtherCalls
\* calls of the other operations (load, reset, keypress, tick_timers)
MaxTicks == 18
MaxOtherCalls == 3

\* rand::random() is called by CXNN alone: any byte
RandomBytes(e) ==
    LET f == Fetch(e)
    IN  IF f.panic = NoPanic /\ Digit1(f.op) = 12 THEN 0 .. U8 - 1 ELSE {0}

\* the build's overflow checks decide an outcome only where an operation
\* overflows, which is sp -= 1 at sp = 0, in the pop of 00EE
OverflowChecks(e) ==
    LET f == Fetch(e)
    IN  IF f.panic = NoPanic /\ f.op = \h00EE /\ e.sp = 0 THEN BOOLEAN ELSE {TRUE}

\* the calls not yet returned from: a call appends the address after it and
\* the stack pointer it found, a return removes the newest
ShadowAfter(sh, e, r) ==
    IF r.panic # NoPanic THEN sh
    ELSE IF Digit1(r.op) = 2 THEN Append(sh, [ret |-> e.pc + 2, sp |-> e.sp])
    ELSE IF r.op = \h00EE /\ sh # << >> THEN SubSeq(sh, 1, Len(sh) - 1)
    ELSE sh

\* the call a return returns from: the newest of the calls not yet returned
\* from, as a sequence of one, or of none
Matching(sh, r) ==
    IF r.panic = NoPanic /\ r.op = \h00EE /\ sh # << >>
    THEN << sh[Len(sh)] >>
    ELSE << >>

LastCall(call) ==
    [call |-> call, op |-> 0, fetched |-> FALSE, matching |-> << >>, beep |-> FALSE]

----------------------------------------------------------------------------
(* The state machine *)

Init ==
    /\ emu = New
    /\ panic = NoPanic
    /\ prev = New
    /\ last = LastCall("new")
    /\ prev2 = New
    /\ last2 = LastCall("new")
    /\ shadow = << >>
    /\ calls = [tick |-> 0, other |-> 0]

\* every call moves the history on by one call
History == prev' = emu /\ prev2' = prev /\ last2' = last

\* tick(): the step on the struct, the same under every specification
TickStep ==
    /\ panic = NoPanic
    /\ History
    /\ \E rnd \in RandomBytes(emu), overflow_checks \in OverflowChecks(emu) :
          LET r == TickEmu(emu, rnd, overflow_checks)
          IN  /\ emu' = r.emu
              /\ panic' = r.panic
              /\ last' = [call |-> "tick", op |-> r.op,
                          fetched |-> Fetch(emu).panic = NoPanic,
                          matching |-> Matching(shadow, r),
                          beep |-> FALSE]
              /\ shadow' = ShadowAfter(shadow, emu, r)

\* load(): the step on the struct
LoadStep(data) ==
    /\ panic = NoPanic
    /\ History
    /\ LET r == Load(emu, data)
       IN  /\ emu' = r.emu
           /\ panic' = r.panic
    /\ last' = LastCall("load")
    /\ shadow' = shadow

TickCall ==
    /\ calls.tick < MaxTicks
    /\ TickStep
    /\ calls' = [calls EXCEPT !.tick = @ + 1]

\* the driver loads a program into a machine that is at its start address
\* with an empty call stack: one that holds no program yet, or one whose
\* program has just jumped back to the start address
LoadCall ==
    /\ calls.other < MaxOtherCalls
    /\ emu.pc = START_ADDR /\ emu.sp = 0
    /\ (DOMAIN emu.ram \subseteq 0 .. FONTSET_SIZE - 1 \/ last.call = "tick")
    /\ \E data \in Programs : LoadStep(data)
    /\ calls' = [calls EXCEPT !.other = @ + 1]

ResetCall ==
    /\ panic = NoPanic
    /\ calls.other < MaxOtherCalls
    /\ History
    /\ emu' = Reset(emu)
    /\ panic' = NoPanic
    /\ last' = LastCall("reset")
    /\ shadow' = << >>
    /\ calls' = [calls EXCEPT !.other = @ + 1]

KeypressCall ==
    /\ panic = NoPanic
    /\ calls.other < MaxOtherCalls
    /\ History
    /\ \E index \in KeyInputs, pressed \in BOOLEAN :
          LET r == Keypress(emu, index, pressed)
          IN  /\ emu' = r.emu
              /\ panic' = r.panic
    /\ last' = LastCall("keypress")
    /\ shadow' = shadow
    /\ calls' = [calls EXCEPT !.other = @ + 1]

TickTimersCall ==
    /\ panic = NoPanic
    /\ calls.other < MaxOtherCalls
    /\ History
    /\ emu' = TickTimers(emu)
    /\ panic' = NoPanic
    /\ last' = [LastCall("tick_timers") EXCEPT !.beep = TickTimersBeep(emu)]
    /\ shadow' = shadow
    /\ calls' = [calls EXCEPT !.other = @ + 1]

Next == TickCall \/ LoadCall \/ ResetCall \/ KeypressCall \/ TickTimersCall

Spec == Init /\ [][Next]_vars

----------------------------------------------------------------------------
(* The operand specification: the driver loads one program into the new    *)
(* machine and then calls tick until the program counter is at a jump to   *)
(* itself.  rand::random() supplies every byte, so a program that draws    *)
(* its operands with CXFF runs its instructions on every operand value.    *)

\* V0 = rand, V1 = rand, then 8XY4, 8XY5, 8XY7 on (V0, V1)
AluProgram == << \hC0FF, \hC1FF, \h8014, \h8015, \h8017, \h120A >>

\* the same on other registers, Y = F and X = Y among them, with operands
\* rand & 0xC3
AluRegisterPrograms ==
    { << Op(12, xy[1], 12, 3), Op(12, xy[2], 12, 3),
         Op(8, xy[1], xy[2], 4), Op(8, xy[1], xy[2], 5), Op(8, xy[1], xy[2], 7),
         \h120A >> : xy \in { <<0, 15>>, <<3, 3>>, <<14, 2>> } }

\* VX = rand, then 8XY6 on it, or 8XYE on it, X = F among them
ShiftPrograms ==
    { << Op(12, xn[1], 15, 15), Op(8, xn[1], 1, xn[2]), \h1204 >> :
         xn \in {0, 7, 15} \X {6, 14} }

\* VX = rand, I = NNN, FX33; at 0xFFE the third digit is past the end of ram
BcdPrograms ==
    { << Op(12, xn[1], 15, 15), Op(10, 0, 0, 0) + xn[2], Op(15, xn[1], 3, 3),
         \h1206 >> :
         xn \in { <<0, \h300>>, <<5, \hFFD>>, <<5, \h203>>, <<1, \hFFE>> } }

\* V0 = 60, V1 = 5, I = 20C, then twice the one-row sprite 0xFF at (V0, V1)
DrawWrapProgram == << \h603C, \h6105, \hA20C, \hD011, \hD011, \h120A, \hFF00 >>

\* the glyph "2" drawn once, a second glyph drawn twice over it, and a
\* third drawn twice beside it
DrawGlyphProgram ==
    << \hA00A, \hD125, \hD345, \hD345, \hD9A5, \hD9A5, \h120C >>

\* V0 = rand, stored at 300 as a one-row sprite, drawn twice
DrawRandomProgram ==
    << \hC0FF, \hA300, \hF055, \hD9A1, \hD9A1, \h120A >>

\* a sprite of two rows at 0xFFF: its second row is past the end of ram
DrawEndProgram == << \hAFFF, \hD012 >>

\* VF = 0xAA, VX = rand, then 7XNN: every NN on V0, 1 and 0xFF on V7 and VE
AddPrograms ==
    { << \h6FAA, Op(12, xn[1], 15, 15), Op(7, xn[1], 0, 0) + xn[2], \h1206 >> :
         xn \in ({0} \X (0 .. U8 - 1)) \cup ({7, 14} \X {1, U8 - 1}) }

\* VF = rand & 0xC3, V2 = rand & 0xC3, then 8FY4, 8FY5 or 8FY7 with Y = 2
\* or Y = F: the flag register is an operand
AluFlagPrograms ==
    { << \hCFC3, \hC2C3, Op(8, 15, yn[1], yn[2]), \h1206 >> :
         yn \in {2, 15} \X {4, 5, 7} }

\* the glyph "0" drawn twice by DF05, then once by D0F5
DrawFlagProgram == << \hA000, \hDF05, \hDF05, \hD0F5, \h1208 >>

\* the byte 0xFF stored at 0xFFF, then a sprite of two rows drawn from there
DrawEndLitProgram == << \h60FF, \hAFFF, \hF055, \hD012 >>

\* V0 = 5 and V1 = 7 stored from 0xFFF on: V1 is past the end of ram
StoreEndProgram == << \h6005, \h6107, \hAFFF, \hF155 >>

\* the byte 0xFF stored at 0xFFF, V0 = 0, then V0 and V1 loaded from 0xFFF on
LoadEndProgram == << \h60FF, \hAFFF, \hF055, \h6000, \hF165 >>

DataPrograms ==
    { Bytes(AluProgram), Bytes(DrawWrapProgram), Bytes(DrawGlyphProgram),
      Bytes(DrawRandomProgram), Bytes(DrawEndProgram), Bytes(DrawFlagProgram),
      Bytes(DrawEndLitProgram), Bytes(StoreEndProgram), Bytes(LoadEndProgram) }
    \cup { Bytes(p) : p \in AluRegisterPrograms \cup ShiftPrograms \cup BcdPrograms
                            \cup AddPrograms \cup AluFlagPrograms }

\* the program counter is at a jump to itself
Halted(e) ==
    LET f == Fetch(e)
    IN  f.panic = NoPanic /\ f.op = \h1000 + e.pc

LoadData ==
    /\ last.call = "new"
    /\ \E data \in DataPrograms : LoadStep(data)
    /\ UNCHANGED calls

TickData ==
    /\ last.call # "new"
    /\ ~Halted(emu)
    /\ TickStep
    /\ UNCHANGED calls

NextData == LoadData \/ TickData

SpecData == Init /\ [][NextData]_vars

----------------------------------------------------------------------------
(* The decode specification: the driver loads one instruction word, any of *)
(* the 65536, into the new machine and calls tick once.                    *)

LoadWord ==
    /\ last.call = "new"
    /\ \E word \in 0 .. U16 - 1 : LoadStep(Bytes(<< word >>))
    /\ UNCHANGED calls

TickWord ==
    /\ last.call = "load"
    /\ TickStep
    /\ UNCHANGED calls

NextDecode == LoadWord \/ TickWord

SpecDecode == Init /\ [][NextDecode]_vars

----------------------------------------------------------------------------
(* Properties.  Each is stated on the state after a call: prev is the      *)
(* struct before the call, emu the struct after it, last the call.         *)

\* the last call was a tick whose fetch succeeded: it executed last.op
Executed == last.call = "tick" /\ last.fetched

\* ... and the instruction ran to its end
Completed == Executed /\ panic = NoPanic

LastX == Digit2(last.op)
LastY == Digit3(last.op)

IsAlu(op, digit4) == Digit1(op) = 8 /\ Digit4(op) = digit4
IsDraw(op) == Digit1(op) = 13
IsCall(op) == Digit1(op) = 2
IsRet(op) == op = \h00EE
IsWaitKey(op) == Digit1(op) = 15 /\ Digit3(op) = 0 /\ Digit4(op) = 10
IsBcd(op) == Digit1(op) = 15 /\ Digit3(op) = 3 /\ Digit4(op) = 3

SymDiff(A, B) == (A \ B) \cup (B \ A)

\* the cells of the sprite of n rows at e.i_reg, its origin at column x0 and
\* row y0: bit c of a row, most significant first, is column x0 + c
SpriteCells(e, x0, y0, n) ==
    { ((y0 + rc[1]) % SCREEN_HEIGHT) * SCREEN_WIDTH + ((x0 + rc[2]) % SCREEN_WIDTH) :
        rc \in { q \in (0 .. n - 1) \X (0 .. 7) :
                   (RamGet(e.ram, e.i_reg + q[1]) \div Pow(2, 7 - q[2])) % 2 = 1 } }

KeysDown(e) == {k \in 0 .. NUM_KEYS - 1 : e.keys[k]}

Lowest(S) == CHOOSE k \in S : \A j \in S : k <= j

(* C1: 8XY6 leaves in VF the least significant bit VX had before the shift
   (0 or 1), for every X, and leaves VX shifted right by one for X # F. *)
C1_ShrFlagIsDroppedBit ==
    (Completed /\ IsAlu(last.op, 6)) =>
        LET v == prev.v_reg[LastX]
        IN  /\ emu.v_reg[15] = v % 2
            /\ LastX # 15 => emu.v_reg[LastX] = v \div 2

(* C2: FX33 with I + 2 < 4096 writes the hundreds digit of VX to ram[I], the
   tens digit to ram[I + 1], the ones digit to ram[I + 2], and changes no
   other byte of ram. *)
C2_BcdHundredsFirst ==
    (Completed /\ IsBcd(last.op) /\ prev.i_reg + 2 < RAM_SIZE) =>
        LET v == prev.v_reg[LastX]
            i == prev.i_reg
        IN  /\ RamGet(emu.ram, i) = v \div 100
            /\ RamGet(emu.ram, i + 1) = (v \div 10) % 10
            /\ RamGet(emu.ram, i + 2) = v % 10
            /\ \A a \in (DOMAIN emu.ram \cup DOMAIN prev.ram) \ {i, i + 1, i + 2} :
                  RamGet(emu.ram, a) = RamGet(prev.ram, a)

(* C3: DXYN toggles exactly the cells of the sprite placed with its origin at
   column VX and row VY, the values of registers X and Y, both axes wrapping;
   a row 0xFF drawn with VX = 60 toggles columns 60..63 and 0..3. *)
C3_DrawAtRegisterValues ==
    (Completed /\ IsDraw(last.op)) =>
        emu.screen = SymDiff(prev.screen,
                             SpriteCells(prev, prev.v_reg[LastX], prev.v_reg[LastY],
                                         Digit4(last.op)))

\* the last two calls were ticks that executed the same DXYN on the same
\* index register and sprite bytes
DrewTwice ==
    /\ Completed /\ IsDraw(last.op)
    /\ last2.call = "tick" /\ last2.fetched /\ last2.op = last.op
    /\ prev.i_reg = prev2.i_reg
    /\ \A r \in 0 .. Digit4(last.op) - 1 :
          RamGet(prev.ram, prev.i_reg + r) = RamGet(prev2.ram, prev2.i_reg + r)

\* the sprite of the first of the two draws has a set bit
SpriteHasBit ==
    \E r \in 0 .. Digit4(last.op) - 1 : RamGet(prev2.ram, prev2.i_reg + r) # 0

\* the cells the first of the two draws changed were unlit before it
TargetsWereUnlit == prev2.screen \ prev.screen = {}

(* C4: the same DXYN executed twice in a row, on a sprite with a set bit and
   from a framebuffer whose targeted cells are unlit, leaves the framebuffer
   as it was before the first draw, with VF = 0 after the first draw and
   VF = 1 after the second. *)
C4_DrawTwiceRestores ==
    (DrewTwice /\ SpriteHasBit /\ TargetsWereUnlit) =>
        /\ emu.screen = prev2.screen
        /\ prev.v_reg[15] = 0
        /\ emu.v_reg[15] = 1

\* the glyph at (9, 10) drawn and undrawn beside the lit glyph at (1, 2)
C4_Witness ==
    /\ DrewTwice /\ SpriteHasBit /\ TargetsWereUnlit
    /\ last.op = \hD9A5
    /\ prev2.screen # {}
    /\ prev.screen # prev2.screen
    /\ emu.screen = prev2.screen
    /\ emu.v_reg[15] = 1

(* C5: a tick on FX0A with no key latch set leaves the whole struct as it
   was (so also over repeated ticks); with a latch set it stores the lowest
   pressed key index in VX, leaves pc 2 past the instruction and changes
   nothing else. *)
C5_WaitKey ==
    (Executed /\ IsWaitKey(last.op)) =>
        /\ panic = NoPanic
        /\ IF KeysDown(prev) = {}
           THEN emu = prev
           ELSE emu = [prev EXCEPT !.pc = prev.pc + 2,
                                   !.v_reg[LastX] = Lowest(KeysDown(prev))]

\* keys 3 and 15 are down after at least one tick that waited: V5 = 3
C5_Witness ==
    /\ Completed /\ IsWaitKey(last.op)
    /\ calls.tick >= 2
    /\ KeysDown(prev) = {3, 15}
    /\ emu.v_reg[5] = 3
    /\ emu.pc = prev.pc + 2

(* C6: a 2NNN fetched from A with sp = s < 16 completes, pushes A + 2 and
   sets pc = NNN and sp = s + 1; a 00EE that completes returns from the
   newest call not yet returned from, and sets pc = A + 2 and sp = s of that
   call. *)
C6_CallReturn ==
    /\ (Executed /\ IsCall(last.op) /\ prev.sp < STACK_SIZE) =>
          /\ panic = NoPanic
          /\ emu.stack[prev.sp] = prev.pc + 2
          /\ emu.pc = last.op % 4096
          /\ emu.sp = prev.sp + 1
    /\ (Completed /\ IsRet(last.op)) =>
          /\ Len(last.matching) = 1
          /\ emu.pc = last.matching[1].ret
          /\ emu.sp = last.matching[1].sp

\* the return of the outer call at 200, after the call at 206 returned
C6_Witness ==
    /\ Completed /\ IsRet(last.op)
    /\ last2.call = "tick" /\ IsRet(last2.op)
    /\ last.matching = << [ret |-> \h202, sp |-> 0] >>
    /\ emu.pc = \h202
    /\ emu.sp = 0

(* C7: sp is in 0..16 in every reachable state; a 2NNN executed with sp = 16
   and a 00EE executed with sp = 0 end in a panic, leave sp unchanged and do
   not write the stack. *)
C7_StackPointerInRange ==
    /\ emu.sp \in 0 .. STACK_SIZE
    /\ (Executed /\ IsCall(last.op) /\ prev.sp = STACK_SIZE) =>
          /\ panic # NoPanic
          /\ emu.sp = prev.sp
          /\ emu.stack = prev.stack
    /\ (Executed /\ IsRet(last.op) /\ prev.sp = 0) =>
          /\ panic # NoPanic
          /\ emu.sp = prev.sp
          /\ emu.stack = prev.stack

(* C8: 8XY4 with X # F sets VX to (a + b) mod 256 and VF to 1 if a + b > 255
   and to 0 otherwise, a and b the values of VX and VY before it. *)
C8_AddCarry ==
    (Completed /\ IsAlu(last.op, 4) /\ LastX # 15) =>
        LET a == prev.v_reg[LastX]
            b == prev.v_reg[LastY]
        IN  /\ emu.v_reg[LastX] = (a + b) % 256
            /\ emu.v_reg[15] = IF a + b > 255 THEN 1 ELSE 0

\* 200 + 56 = 256: the smallest sum that carries
C8_Witness ==
    /\ Completed /\ last.op = \h8014
    /\ prev.v_reg[0] = 200 /\ prev.v_reg[1] = 56
    /\ emu.v_reg[0] = 0
    /\ emu.v_reg[15] = 1

(* C9: with X # F, 8XY5 sets VX to (a - b) mod 256 and VF to 1 if a >= b and
   to 0 otherwise; 8XY7 sets VX to (b - a) mod 256 and VF to 1 if b >= a and
   to 0 otherwise. *)
C9_SubNoBorrow ==
    /\ (Completed /\ IsAlu(last.op, 5) /\ LastX # 15) =>
          LET a == prev.v_reg[LastX]
              b == prev.v_reg[LastY]
          IN  /\ emu.v_reg[LastX] = (a - b) % 256
              /\ emu.v_reg[15] = IF a >= b THEN 1 ELSE 0
    /\ (Completed /\ IsAlu(last.op, 7) /\ LastX # 15) =>
          LET a == prev.v_reg[LastX]
              b == prev.v_reg[LastY]
          IN  /\ emu.v_reg[LastX] = (b - a) % 256
              /\ emu.v_reg[15] = IF b >= a THEN 1 ELSE 0

\* 8XY7 on a = 7, b = 5 borrows: VX = 254, VF = 0, after an 8XY5
C9_Witness ==
    /\ Completed /\ last.op = \h8017
    /\ last2.op = \h8015
    /\ prev.v_reg[0] = 7 /\ prev.v_reg[1] = 5
    /\ emu.v_reg[0] = 254
    /\ emu.v_reg[15] = 0

(* C10: 8XYE leaves in VF the most significant bit VX had before the shift
   (v div 128, 0 or 1), for every X, and leaves VX = (2 * v) mod 256 for
   X # F. *)
C10_ShlFlagIsDroppedBit ==
    (Completed /\ IsAlu(last.op, 14)) =>
        LET v == prev.v_reg[LastX]
        IN  /\ emu.v_reg[15] = v \div 128
            /\ emu.v_reg[15] \in {0, 1}
            /\ LastX # 15 => emu.v_reg[LastX] = (2 * v) % 256

\* V7 = 0xC1 shifted left: VF = 1, V7 = 0x82
C10_Witness ==
    /\ Completed /\ last.op = \h871E
    /\ prev.v_reg[7] = 193
    /\ emu.v_reg[7] = 130
    /\ emu.v_reg[15] = 1

IsAddNN(op) == Digit1(op) = 7

(* C11: 7XNN with X # F sets VX to (a + NN) mod 256, a the value of VX before
   it, and leaves VF and every other register as they were, also when
   a + NN is above 255. *)
C11_AddNNNoFlag ==
    (Completed /\ IsAddNN(last.op) /\ LastX # 15) =>
        LET a  == prev.v_reg[LastX]
            nn == last.op % 256
        IN  /\ emu.v_reg[LastX] = (a + nn) % 256
            /\ \A r \in 0 .. NUM_V_REGS - 1 :
                  r # LastX => emu.v_reg[r] = prev.v_reg[r]

\* 100 + 200 overflows 8 bits: V0 = 44, VF still 0xAA
C11_Witness ==
    /\ Completed /\ last.op = \h70C8
    /\ prev.v_reg[0] = 100
    /\ prev.v_reg[15] = 170
    /\ emu.v_reg[0] = 44
    /\ emu.v_reg[15] = 170

(* C12: a call of tick_timers made with st = 1 leaves st = 0 and exposes the
   "emit tone" signal to its caller; made with st = 0 it leaves st = 0 and
   exposes no signal; made with st > 1 it lowers st by 1 and exposes no
   signal.  dt is lowered by 1 if nonzero and stays 0 otherwise. *)
C12_ToneSignal ==
    (last.call = "tick_timers") =>
        /\ prev.st = 1 => (emu.st = 0 /\ last.beep)
        /\ prev.st = 0 => (emu.st = 0 /\ ~last.beep)
        /\ prev.st > 1 => (emu.st = prev.st - 1 /\ ~last.beep)
        /\ emu.dt = IF prev.dt > 0 THEN prev.dt - 1 ELSE 0

IsSetDt(op) == Digit1(op) = 15 /\ op % 256 = \h15
IsSetSt(op) == Digit1(op) = 15 /\ op % 256 = \h18
IsGetDt(op) == Digit1(op) = 15 /\ op % 256 = \h07

\* a timer after a frame: lowered by 1 if nonzero
Lowered(t) == IF t > 0 THEN t - 1 ELSE 0

(* C13: tick_timers lowers each nonzero timer by exactly 1 and leaves a zero
   timer at 0; FX15 sets dt to VX and leaves st; FX18 sets st to VX and
   leaves dt; reset sets both to 0; every other tick, whatever it executes or
   however it ends, and every load and keypress leave both timers as they
   were. *)
C13_TimersFrame ==
    LET setDt == Executed /\ IsSetDt(last.op)
        setSt == Executed /\ IsSetSt(last.op)
    IN  CASE last.call = "tick_timers" ->
                /\ emu.dt = Lowered(prev.dt)
                /\ emu.st = Lowered(prev.st)
          [] last.call = "reset" ->
                /\ emu.dt = 0
                /\ emu.st = 0
          [] setDt ->
                /\ emu.dt = prev.v_reg[LastX]
                /\ emu.st = prev.st
          [] setSt ->
                /\ emu.st = prev.v_reg[LastX]
                /\ emu.dt = prev.dt
          [] OTHER ->
                /\ emu.dt = prev.dt
                /\ emu.st = prev.st

\* a load over the program that has set both timers to 2, seen a frame and
\* jumped back to the start address
C13_Witness ==
    /\ last.call = "load"
    /\ last2.call = "tick" /\ last2.op = \h1200
    /\ prev2.dt = 1 /\ prev2.st = 1
    /\ emu.dt = 1 /\ emu.st = 1
    /\ emu.ram # prev.ram

(* C14: reset leaves the struct equal to the one new() returns: pc = 0x200,
   ram[0..80) the font table, every other byte of ram 0 (a loaded program
   too: no address from 80 on holds a nonzero byte), every register, I,
   every stack slot, sp, dt, st 0, every key and every cell of the screen
   false (no cell is lit). *)
C14_ResetIsNew ==
    (last.call = "reset") =>
        /\ emu = New
        /\ emu.pc = 512
        /\ \A a \in 0 .. 79 : RamGet(emu.ram, a) = FONTSET[a + 1]
        /\ \A a \in DOMAIN emu.ram : a \in 0 .. 79
        /\ \A r \in 0 .. 15 : emu.v_reg[r] = 0
        /\ emu.i_reg = 0
        /\ \A k \in 0 .. 15 : emu.stack[k] = 0
        /\ emu.sp = 0 /\ emu.dt = 0 /\ emu.st = 0
        /\ \A k \in 0 .. 15 : ~emu.keys[k]
        /\ emu.screen = {}

\* a reset in the middle of a call, with a key down, timers running, a
\* program and stored registers in ram
C14_Witness ==
    /\ last.call = "reset"
    /\ emu = New
    /\ prev.pc = \h222
    /\ prev.sp = 1 /\ prev.stack[0] = \h220
    /\ prev.dt = 3 /\ prev.st = 3
    /\ prev.v_reg[2] = 4 /\ prev.v_reg[3] = 4
    /\ RamGet(prev.ram, \h200) # 0
    /\ RamGet(prev.ram, \h300) = 4
    /\ KeysDown(prev) # {}

IsSkipKey(op) == Digit1(op) = 14 /\ op % 256 \in {\h9E, \hA1}
IsStoreRegs(op) == Digit1(op) = 15 /\ op % 256 = \h55
IsLoadRegs(op) == Digit1(op) = 15 /\ op % 256 = \h65

FatalConditions ==
    { "UnknownOpcode", "StackOverflow", "StackUnderflow", "MemoryOutOfBounds",
      "InvalidKeyIndex", "OversizedLoad" }

\* the fatal condition of the last call, if it ended the run: each operation
\* can fail in one way only
FatalCondition ==
    IF last.call = "load" THEN "OversizedLoad"
    ELSE IF last.call = "keypress" THEN "InvalidKeyIndex"
    ELSE IF ~last.fetched THEN "MemoryOutOfBounds"
    ELSE IF IsCall(last.op) THEN "StackOverflow"
    ELSE IF IsRet(last.op) THEN "StackUnderflow"
    ELSE IF IsSkipKey(last.op) THEN "InvalidKeyIndex"
    ELSE IF IsDraw(last.op) \/ IsBcd(last.op) \/ IsStoreRegs(last.op)
            \/ IsLoadRegs(last.op) THEN "MemoryOutOfBounds"
    ELSE "UnknownOpcode"

\* p is an outcome the operations give for the fatal condition c
RaisedBy(c, p) ==
    CASE c = "UnknownOpcode"     -> p = NotImplemented(p.index)
      [] c = "StackOverflow"     -> p = Push([New EXCEPT !.sp = STACK_SIZE], 0).panic
      [] c = "StackUnderflow"    -> \E overflow_checks \in BOOLEAN :
                                       p = Pop(New, overflow_checks).panic
      [] c = "MemoryOutOfBounds" -> /\ p.index >= RAM_SIZE
                                    /\ p = Fetch([New EXCEPT !.pc = p.index - 1]).panic
      [] c = "InvalidKeyIndex"   -> /\ p.index >= NUM_KEYS
                                    /\ p = Keypress(New, p.index, TRUE).panic
      [] c = "OversizedLoad"     -> p = RangeEndOutOfRange(RAM_SIZE, p.index)

(* C15: a call at a full stack, a return at an empty one, a key skip on a
   key number above 15 and an instruction word of no pattern end the tick in
   an error, and the error a call ends in tells which of the six fatal
   conditions occurred: it is an outcome of that condition and of no
   other. *)
C15_FatalDistinguished ==
    /\ (Executed /\ IsCall(last.op) /\ prev.sp = STACK_SIZE) => panic # NoPanic
    /\ (Executed /\ IsRet(last.op) /\ prev.sp = 0) => panic # NoPanic
    /\ (Executed /\ IsSkipKey(last.op) /\ prev.v_reg[LastX] >= NUM_KEYS) =>
          panic # NoPanic
    /\ (panic # NoPanic) =>
          \A c \in FatalConditions : RaisedBy(c, panic) <=> c = FatalCondition

\* the flag of an instruction on the flag register, for VX = a and VY = b
\* before it
Flag(op, a, b) ==
    CASE IsAlu(op, 4)  -> IF a + b > 255 THEN 1 ELSE 0
      [] IsAlu(op, 5)  -> IF a >= b THEN 1 ELSE 0
      [] IsAlu(op, 6)  -> a % 2
      [] IsAlu(op, 7)  -> IF b >= a THEN 1 ELSE 0
      [] IsAlu(op, 14) -> a \div 128
      [] IsDraw(op)    -> IF prev.screen \ emu.screen # {} THEN 1 ELSE 0

\* the result of an arithmetic instruction, for VX = a and VY = b before it
Result(op, a, b) ==
    CASE IsAlu(op, 4)  -> (a + b) % 256
      [] IsAlu(op, 5)  -> (a - b) % 256
      [] IsAlu(op, 6)  -> a \div 2
      [] IsAlu(op, 7)  -> (b - a) % 256
      [] IsAlu(op, 14) -> (2 * a) % 256

IsFlagAlu(op) == \E n \in {4, 5, 6, 7, 14} : IsAlu(op, n)

(* C16: 8XY4, 8XY5, 8XY6, 8XY7, 8XYE and DXYN on the flag register: with
   X = F the value VF is left with is the flag (carry, no borrow, the bit
   shifted out, collision), computed from the values the registers had
   before the instruction; with Y = F and X # F the result in VX is computed
   from the value VF had before the instruction. *)
C16_FlagWrittenLast ==
    (Completed /\ (IsFlagAlu(last.op) \/ IsDraw(last.op))
               /\ (LastX = 15 \/ LastY = 15)) =>
        LET a == prev.v_reg[LastX]
            b == prev.v_reg[LastY]
        IN  /\ emu.v_reg[15] = Flag(last.op, a, b)
            /\ (IsFlagAlu(last.op) /\ LastX # 15) =>
                  emu.v_reg[LastX] = Result(last.op, a, b)

\* the instruction words of the opcode table
InTable(op) ==
    LET d1 == op \div 4096
        d4 == op % 16
        nn == op % 256
    IN  \/ op \in {\h0000, \h00E0, \h00EE}
        \/ d1 \in {1, 2, 3, 4, 6, 7, 10, 11, 12, 13}
        \/ d1 \in {5, 9} /\ d4 = 0
        \/ d1 = 8 /\ d4 \in {0, 1, 2, 3, 4, 5, 6, 7, 14}
        \/ d1 = 14 /\ nn \in {\h9E, \hA1}
        \/ d1 = 15 /\ nn \in {\h07, \h0A, \h15, \h18, \h1E, \h29, \h33, \h55, \h65}

DecodeError == panic.msg = "not implemented: Unimplemented opcode"

(* C17: a tick on an instruction word of no pattern of the opcode table ends
   in the decode error and has executed nothing (only pc has moved past the
   word); a tick on a word of the table does not end in the decode error. *)
C17_DecodeError ==
    Executed =>
        IF InTable(last.op)
        THEN ~DecodeError
        ELSE /\ DecodeError
             /\ panic.index = last.op
             /\ emu = [prev EXCEPT !.pc = prev.pc + 2]

\* 8XY8 is no opcode
C17_Witness ==
    /\ Executed /\ last.op = \h8AB8
    /\ DecodeError
    /\ emu.v_reg = prev.v_reg
    /\ emu.pc = \h202

IsJmpV0(op) == Digit1(op) = 11

(* C18: in every state of a run that has not ended in a panic, pc is in
   0 .. 0x10FE (0xFFF + 0xFF): no update of pc leaves the 16 bits. *)
C18_PcInRange ==
    (panic = NoPanic) => emu.pc \in 0 .. \h10FE

\* BFFF with V0 = 0xFF: the largest pc there is
C18_Witness ==
    /\ Completed /\ IsJmpV0(last.op)
    /\ last.op = \hBFFF
    /\ prev.v_reg[0] = 255
    /\ emu.pc = \h10FE

\* the next instruction is one of the timer opcodes FX07, FX15, FX18
NextIsTimerOp(e) ==
    LET f == Fetch(e)
    IN  f.panic = NoPanic /\ (IsGetDt(f.op) \/ IsSetDt(f.op) \/ IsSetSt(f.op))

(* C19: from every state whose next instruction is none of FX07, FX15,
   FX18, tick() then tick_timers() and tick_timers() then tick() give the
   same struct and the same outcome; and a tick_timers() changes nothing
   but dt and st. *)
C19_CadencesCommute ==
    /\ (panic = NoPanic /\ ~NextIsTimerOp(emu)) =>
          \A rnd \in RandomBytes(emu), overflow_checks \in OverflowChecks(emu) :
              LET tick_first   == TickEmu(emu, rnd, overflow_checks)
                  timers_first == TickEmu(TickTimers(emu), rnd, overflow_checks)
              IN  /\ TickTimers(tick_first.emu) = timers_first.emu
                  /\ tick_first.panic = timers_first.panic
    /\ (last.call = "tick_timers") =>
          emu = [prev EXCEPT !.dt = emu.dt, !.st = emu.st]

\* a draw, then a frame, with both timers running and a key down: the struct
\* is the one the frame, then the draw, give
C19_Witness ==
    /\ last.call = "tick_timers"
    /\ last2.call = "tick" /\ last2.fetched /\ last2.op = \hD015
    /\ prev2.dt = 3 /\ prev2.st = 3
    /\ KeysDown(prev2) # {}
    /\ emu.dt = 2 /\ emu.st = 2
    /\ emu.screen # prev2.screen
    /\ emu = TickEmu(TickTimers(prev2), 0, TRUE).emu

(* C20: a tick that ends in a panic leaves the registers, I, the ram, the
   screen, the stack, sp, the timers and the keys as they were before it;
   only pc may differ. *)
C20_FatalTickChangesNothing ==
    (last.call = "tick" /\ panic # NoPanic) =>
        emu = [prev EXCEPT !.pc = emu.pc]

=============================================================================
